---- MODULE Spec2Model ----
(***************************************************************************)
(* Model of the resilient task-scheduling layer of phantom-security:       *)
(*   - ParallelExecutor (backend/app/core/scanner/parallel_executor.py)    *)
(*   - CircuitBreaker   (backend/app/core/resilience/circuit_breaker.py)   *)
(*   - BackoffCalculator, TokenBucket, AdaptiveRateLimiter                 *)
(*                      (backend/app/core/resilience/rate_limiter.py)      *)
(*   - ErrorHandler     (backend/app/core/error_handling/error_handler.py) *)
(* All run on one asyncio event loop: a coroutine runs without             *)
(* interruption between two suspension points, so every action below is    *)
(* the code between two suspension points.                                 *)
(***************************************************************************)
EXTENDS Integers, Sequences, FiniteSets, TLC

VARIABLES
    \* ---- ParallelExecutor ----
    tasks,                  \* self.tasks: task_id -> ScanTask fields
    limits,                 \* self.limits: ResourceLimits
    task_queue,             \* self.task_queue: list of task ids
    running_tasks,          \* keys of self.running_tasks
    completed_tasks,        \* self.completed_tasks
    failed_tasks,           \* self.failed_tasks
    current_cpu_tasks,      \* self.current_cpu_tasks
    current_network_tasks,  \* self.current_network_tasks
    exec_pc,                \* position of execute_all: setup / loop / returned
    returned,               \* value returned by execute_all (keys of the maps)
    ops,                    \* task_id -> its operations started, not yet completed
    memory_exceeded,        \* ru_maxrss (a high-water mark) above memory_limit_mb
    start_count,            \* history: task_id -> number of _start_task calls
    op_succeeded,           \* history: task_id -> some operation of it returned
    \* ---- CircuitBreaker ----
    config,                 \* self.config: CircuitBreakerConfig
    state,                  \* self.state
    consecutive_failures,   \* self.metrics.consecutive_failures
    consecutive_successes,  \* self.metrics.consecutive_successes
    last_failure_time,      \* self.last_failure_time (NoTime = None)
    calls_in_current_minute,\* self.metrics.calls_in_current_minute
    current_minute,         \* self.metrics.current_minute
    now,                    \* time.time(), in seconds
    call_pc,                \* caller -> idle / executing
    call_result,            \* caller -> outcome of its last call step
    opened_at,              \* history: time of the last transition to OPEN
    half_open_successes,    \* history: successes recorded since HALF_OPEN began
    invoked_in_minute,      \* history: operations invoked in minute now // 60
    \* ---- TokenBucket / AdaptiveRateLimiter ----
    rl_now,                 \* time.time() as rate_limiter.py reads it, seconds
    token_bucket,           \* TokenBucket: capacity, tokens, refill_rate,
                            \* last_refill (tokens in 1/TokenScale of a token)
    bk_last,                \* history: the last TokenBucket operation
    limiter,                \* AdaptiveRateLimiter: request_times,
                            \* consecutive_failures, success_streak,
                            \* failure_streak, adaptive_multiplier (tenths),
                            \* backoff_until (1/DelayScale s), config
    rl_pc,                  \* caller of call_with_rate_limit -> idle/executing
    rl_last,                \* history: the outcome of the last acquire
    admitted_times,         \* history: times of the tokens admitted in the
                            \* trailing window
    failing_calls,          \* history: the calls of call_with_rate_limit in
                            \* a row that were admitted and whose func
                            \* raised, with nothing else done in between
    \* ---- BackoffCalculator ----
    backoff_args,           \* arguments of calculate_backoff
    backoff_delay,          \* its result (NotCalled before the call)
    \* ---- ErrorHandler.handle_with_retry ----
    retry_config,           \* config: RetryConfig
    attempt,                \* the loop variable of "for attempt in range"
    eh_pc,                  \* attempt / sleeping / returned / raised
    eh_invocations,         \* history: the number of invocations of func
    phantom_exc,            \* the classified exception of the last failure
    eh_metrics              \* self.metrics

exec_vars == <<tasks, limits, task_queue, running_tasks, completed_tasks,
               failed_tasks, current_cpu_tasks, current_network_tasks,
               exec_pc, returned, ops, memory_exceeded,
               start_count, op_succeeded>>

cb_vars == <<config, state, consecutive_failures, consecutive_successes,
             last_failure_time, calls_in_current_minute, current_minute,
             now, call_pc, call_result, opened_at, half_open_successes,
             invoked_in_minute>>

rl_vars == <<rl_now, token_bucket, bk_last, limiter, rl_pc, rl_last,
             admitted_times, failing_calls>>

al_vars == <<limiter, rl_pc, rl_last, admitted_times, failing_calls>>

bo_vars == <<backoff_args, backoff_delay>>

eh_vars == <<retry_config, attempt, eh_pc, eh_invocations, phantom_exc,
             eh_metrics>>

vars == <<exec_vars, cb_vars, rl_vars, bo_vars, eh_vars>>

(***************************************************************************)
(* Bounds of the model                                                     *)
(***************************************************************************)
MaxRetriesBound == 1        \* max_retries of a task is drawn from 0..this
MaxLimit == 2               \* each resource ceiling is drawn from 1..this

TaskOrder == <<"t1", "t2", "t3">>   \* ids in the order add_task receives them
TaskIds == {TaskOrder[i] : i \in 1..Len(TaskOrder)}

(***************************************************************************)
(* TaskPriority                                                            *)
(***************************************************************************)
CRITICAL == 1
HIGH == 2
NORMAL == 3
LOW == 4
TaskPriority == {CRITICAL, HIGH, NORMAL, LOW}

\* ResourceLimits defaults
DefaultMaxCpuIntensiveTasks == 2
DefaultMaxNetworkTasks == 10

NoError == "none"
DependencyFailed == "Dependency failed"
ExecutionError == "execution error"     \* str(e) of an exception of the run

Submitted == DOMAIN tasks

(***************************************************************************)
(* ParallelExecutor: helpers                                               *)
(***************************************************************************)
\* The task sets add_task is given.  Three families are explored:
\*  - dependency graphs of cpu-bound tasks: up to three tasks with
\*    cpu_intensive=True and network_intensive=True (its default), of one
\*    max_retries value for the whole set; a task depends on any set of the
\*    ids submitted before it, and the first task may instead depend on one
\*    id, itself included (cycles of length 1, 2 and 3, and dependencies on
\*    ids that are never submitted);
\*  - dependency graphs of tasks of the default resource class
\*    (cpu_intensive=False, network_intensive=True), otherwise the same;
\*  - independent tasks: up to two tasks without dependencies, of any
\*    priority and any resource class.
EarlierIds(id) == {TaskOrder[j] : j \in {i \in 1..Len(TaskOrder) :
                      \E k \in i + 1..Len(TaskOrder) : TaskOrder[k] = id}}
GraphDependencyChoices(id) ==
    SUBSET EarlierIds(id)
        \cup (IF id = TaskOrder[1] THEN {{x} : x \in TaskIds} ELSE {})
GraphRetriesChoices ==
    IF Submitted = {} THEN 0..MaxRetriesBound
    ELSE {tasks[x].max_retries : x \in Submitted}
GraphTaskChoices(cpu) ==
    UNION {[id : {id}, priority : {HIGH, NORMAL}, cpu_intensive : {cpu},
            network_intensive : {TRUE}, max_retries : GraphRetriesChoices,
            dependencies : GraphDependencyChoices(id)] : id \in TaskIds}
IndependentTaskChoices ==
    [id : {TaskOrder[1], TaskOrder[2]}, priority : TaskPriority,
     cpu_intensive : BOOLEAN, network_intensive : BOOLEAN,
     max_retries : 0..MaxRetriesBound, dependencies : {{}}]

ZeroCount == [t \in TaskIds |-> 0]
NoReturn == [status |-> "none", results |-> {}, errors |-> <<>>]

\* mutant: the list is left in queue order
SortByPriorityNone(q, ts) == q

\* list.sort(key=priority.value): a stable sort on the priority value
SortByPriority(q, ts) ==
    LET Of(p) == SelectSeq(q, LAMBDA id : ts[id].priority = p)
    IN  Of(CRITICAL) \o Of(HIGH) \o Of(NORMAL) \o Of(LOW)

\* _has_pending_tasks
HasPendingTasks ==
    \/ running_tasks # {}
    \/ /\ Len(task_queue) > 0
       /\ Cardinality(completed_tasks) + Cardinality(failed_tasks)
              < Cardinality(Submitted)

\* mutant: one completed dependency is taken to be enough
DependenciesCompletedAny(deps, completed) ==
    deps = {} \/ deps \cap completed # {}

\* task.dependencies.issubset(self.completed_tasks)
DependenciesCompleted(deps, completed) == deps \subseteq completed

\* task.dependencies.intersection(self.failed_tasks)
DependencyHasFailed(deps, failed) == deps \cap failed # {}

\* the for loop of _get_ready_tasks from queue position i on; acc carries
\* ready_tasks and self.failed_tasks as the loop has left them so far
RECURSIVE ScanQueue(_, _)
ScanQueue(i, acc) ==
    IF i > Len(task_queue) THEN acc
    ELSE LET id == task_queue[i]
             deps == tasks[id].dependencies
         IN  IF id \in running_tasks \/ id \in completed_tasks \/ id \in acc.failed
             THEN ScanQueue(i + 1, acc)
             ELSE IF DependenciesCompleted(deps, completed_tasks)
             THEN ScanQueue(i + 1, [acc EXCEPT !.ready = Append(@, id)])
             ELSE IF DependencyHasFailed(deps, acc.failed)
             THEN ScanQueue(i + 1, [acc EXCEPT !.failed = @ \cup {id}])
             ELSE ScanQueue(i + 1, acc)

\* _get_ready_tasks: the ready list (sorted) and the new self.failed_tasks
GetReadyTasks ==
    LET scan == ScanQueue(1, [ready |-> <<>>, failed |-> failed_tasks])
    IN  [ready |-> SortByPriority(scan.ready, tasks), failed |-> scan.failed]

\* _check_system_resources
CheckSystemResources == ~memory_exceeded

\* _can_start_task, on the bookkeeping st the for loop has reached
CanStartTask(id, st) ==
    /\ Cardinality(st.running) < limits.max_concurrent_tasks
    /\ ~(tasks[id].cpu_intensive
           /\ st.cpu >= limits.max_cpu_intensive_tasks)
    /\ ~(tasks[id].network_intensive
           /\ st.net >= limits.max_network_tasks)
    /\ CheckSystemResources

\* _start_task, on the bookkeeping st
StartTask(id, st) ==
    [running |-> st.running \cup {id},
     cpu |-> IF tasks[id].cpu_intensive THEN st.cpu + 1 ELSE st.cpu,
     net |-> IF tasks[id].network_intensive THEN st.net + 1 ELSE st.net,
     started |-> [st.started EXCEPT ![id] = @ + 1]]

\* "for task_id in ready_tasks: if can start: start, else: break"
RECURSIVE StartReadyTasks(_, _, _)
StartReadyTasks(ready, i, st) ==
    IF i > Len(ready) THEN st
    ELSE IF CanStartTask(ready[i], st)
         THEN StartReadyTasks(ready, i + 1, StartTask(ready[i], st))
         ELSE st

\* the priority a re-enqueued task is given
RetryPriority(p) == HIGH

\* mutant: the retry test is strict
MayRetryStrict(retries, max_retries) == retries < max_retries

\* "if task.retries <= task.max_retries", after the increment
MayRetry(retries, max_retries) == retries <= max_retries

\* the value of execute_all's return statement
ReturnValue(failed, ts) ==
    [status |-> "completed",
     results |-> completed_tasks,
     errors |-> [id \in failed |-> ts[id].error]]

\* tasks with error "Dependency failed" set on the ids of the set marked
MarkDependencyFailed(marked) ==
    [id \in Submitted |->
        IF id \in marked THEN [tasks[id] EXCEPT !.error = DependencyFailed]
        ELSE tasks[id]]

(***************************************************************************)
(* ParallelExecutor: actions                                               *)
(***************************************************************************)
\* add_task, with the ScanTask its caller built
AddTask(t) ==
    /\ exec_pc = "setup"
    /\ Cardinality(Submitted) < Len(TaskOrder)
    /\ t.id = TaskOrder[Cardinality(Submitted) + 1]
    /\ LET task == [priority |-> t.priority,
                    dependencies |-> t.dependencies,
                    cpu_intensive |-> t.cpu_intensive,
                    network_intensive |-> t.network_intensive,
                    retries |-> 0, max_retries |-> t.max_retries,
                    error |-> NoError, started_at |-> FALSE]
           ts == [x \in Submitted \cup {t.id} |->
                     IF x = t.id THEN task ELSE tasks[x]]
       IN  /\ tasks' = ts
           /\ task_queue' = SortByPriority(Append(task_queue, t.id), ts)
    /\ UNCHANGED <<limits, running_tasks, completed_tasks, failed_tasks,
                   current_cpu_tasks, current_network_tasks, exec_pc,
                   returned, ops, memory_exceeded, start_count,
                   op_succeeded>>
    /\ UNCHANGED <<cb_vars, rl_vars, bo_vars, eh_vars>>

\* execute_all up to its main loop
ExecuteAll ==
    /\ exec_pc = "setup"
    /\ IF Submitted = {}
       THEN /\ exec_pc' = "returned"
            /\ returned' = [status |-> "no_tasks", results |-> {},
                            errors |-> <<>>]
       ELSE /\ exec_pc' = "loop"
            /\ UNCHANGED returned
    /\ UNCHANGED <<tasks, limits, task_queue, running_tasks, completed_tasks,
                   failed_tasks, current_cpu_tasks, current_network_tasks,
                   ops, memory_exceeded, start_count, op_succeeded>>
    /\ UNCHANGED <<cb_vars, rl_vars, bo_vars, eh_vars>>

\* one iteration of the main loop of execute_all, from the test of the
\* while condition to the next asyncio.sleep or to the return
LoopIteration ==
    /\ exec_pc = "loop"
    /\ IF ~HasPendingTasks
       THEN /\ exec_pc' = "returned"
            /\ returned' = ReturnValue(failed_tasks, tasks)
            /\ UNCHANGED <<tasks, running_tasks, failed_tasks,
                           current_cpu_tasks, current_network_tasks, ops,
                           start_count>>
       ELSE LET scan == GetReadyTasks
                ts == MarkDependencyFailed(scan.failed \ failed_tasks)
            IN  /\ failed_tasks' = scan.failed
                /\ IF scan.ready = <<>> /\ running_tasks # {}
                   THEN \* await asyncio.sleep(0.1); continue
                        /\ tasks' = ts
                        /\ UNCHANGED <<exec_pc, returned, running_tasks,
                                       current_cpu_tasks,
                                       current_network_tasks, ops,
                                       start_count>>
                   ELSE IF scan.ready = <<>>
                   THEN \* break, then the return statement
                        /\ tasks' = ts
                        /\ exec_pc' = "returned"
                        /\ returned' = ReturnValue(scan.failed, ts)
                        /\ UNCHANGED <<running_tasks, current_cpu_tasks,
                                       current_network_tasks, ops,
                                       start_count>>
                   ELSE LET st == StartReadyTasks(scan.ready, 1,
                                     [running |-> running_tasks,
                                      cpu |-> current_cpu_tasks,
                                      net |-> current_network_tasks,
                                      started |-> ZeroCount])
                        IN  /\ tasks' = [id \in Submitted |->
                                   IF st.started[id] > 0
                                   THEN [ts[id] EXCEPT !.started_at = TRUE]
                                   ELSE ts[id]]
                            /\ running_tasks' = st.running
                            /\ current_cpu_tasks' = st.cpu
                            /\ current_network_tasks' = st.net
                            /\ ops' = [id \in TaskIds |->
                                          ops[id] + st.started[id]]
                            /\ start_count' = [id \in TaskIds |->
                                   start_count[id] + st.started[id]]
                            /\ UNCHANGED <<exec_pc, returned>>
    /\ UNCHANGED <<limits, task_queue, completed_tasks,
                   memory_exceeded, op_succeeded>>
    /\ UNCHANGED <<cb_vars, rl_vars, bo_vars, eh_vars>>

\* a task's operation (task.function) returns ("ok") or raises ("fail") and
\* its done callback runs _task_completed; nothing the executor reads
\* changes between the end of the operation and the callback.  The model
\* follows the executor until execute_all returns.
TaskCompleted(id, outcome) ==
    /\ exec_pc = "loop"
    /\ ops[id] > 0
    /\ ops' = [ops EXCEPT ![id] = @ - 1]
    /\ op_succeeded' = [op_succeeded EXCEPT ![id] = @ \/ outcome = "ok"]
    /\ current_cpu_tasks' = IF tasks[id].cpu_intensive
                            THEN current_cpu_tasks - 1 ELSE current_cpu_tasks
    /\ current_network_tasks' = IF tasks[id].network_intensive
                                THEN current_network_tasks - 1
                                ELSE current_network_tasks
    /\ running_tasks' = running_tasks \ {id}
    /\ LET got_result == outcome = "ok"
           \* completed_at - started_at raises TypeError when started_at
           \* is None; the try block's except clause catches it
           raised == outcome = "fail" \/ ~tasks[id].started_at
           retries == tasks[id].retries + 1
       IN  /\ completed_tasks' = IF got_result
                                 THEN completed_tasks \cup {id}
                                 ELSE completed_tasks
           /\ IF ~raised
              THEN UNCHANGED <<tasks, task_queue, failed_tasks>>
              ELSE IF MayRetry(retries, tasks[id].max_retries)
              THEN /\ tasks' = [tasks EXCEPT
                          ![id].error = ExecutionError,
                          ![id].retries = retries,
                          ![id].priority = RetryPriority(@),
                          ![id].started_at = FALSE]
                   /\ task_queue' = <<id>> \o task_queue
                   /\ UNCHANGED failed_tasks
              ELSE /\ tasks' = [tasks EXCEPT
                          ![id].error = ExecutionError,
                          ![id].retries = retries]
                   /\ failed_tasks' = failed_tasks \cup {id}
                   /\ UNCHANGED task_queue
    /\ UNCHANGED <<limits, exec_pc, returned, memory_exceeded, start_count>>
    /\ UNCHANGED <<cb_vars, rl_vars, bo_vars, eh_vars>>

\* the process's peak resident set size passes memory_limit_mb
MemoryLimitExceeded ==
    /\ ~memory_exceeded
    /\ exec_pc = "loop"
    /\ memory_exceeded' = TRUE
    /\ UNCHANGED <<tasks, limits, task_queue, running_tasks, completed_tasks,
                   failed_tasks, current_cpu_tasks, current_network_tasks,
                   exec_pc, returned, ops, start_count,
                   op_succeeded>>
    /\ UNCHANGED <<cb_vars, rl_vars, bo_vars, eh_vars>>

InitExecutor ==
    /\ tasks = <<>>
    /\ task_queue = <<>>
    /\ running_tasks = {}
    /\ completed_tasks = {}
    /\ failed_tasks = {}
    /\ current_cpu_tasks = 0
    /\ current_network_tasks = 0
    /\ exec_pc = "setup"
    /\ returned = NoReturn
    /\ ops = ZeroCount
    /\ memory_exceeded = FALSE
    /\ start_count = ZeroCount
    /\ op_succeeded = [t \in TaskIds |-> FALSE]

\* the executor of a specification that exercises the breaker only
IdleExecutor ==
    /\ InitExecutor
    /\ limits = [max_concurrent_tasks |-> 1, max_cpu_intensive_tasks |-> 1,
                 max_network_tasks |-> 1]

(***************************************************************************)
(* CircuitBreaker                                                          *)
(***************************************************************************)
MaxThreshold == 2           \* failure/success thresholds are drawn from 1..this
MaxCallsPerMinute == 3      \* max_calls_per_minute is drawn from 1..this
ClockStep == 20             \* seconds between two readings of the clock
MaxClockSteps == 6          \* the clock is followed for this many steps

SecondsPerMinute == 60      \* int(time.time() // 60)

CLOSED == "closed"
OPEN == "open"
HALF_OPEN == "half_open"
CircuitState == {CLOSED, OPEN, HALF_OPEN}
NoTime == -1                \* None
Callers == {"c1", "c2"}     \* coroutines calling CircuitBreaker.call

\* CircuitBreakerConfig values explored
ConfigChoices ==
    [failure_threshold : 1..MaxThreshold,
     success_threshold : 1..MaxThreshold,
     recovery_timeout : {ClockStep, 2 * ClockStep},
     max_calls_per_minute : 1..MaxCallsPerMinute]

\* int(time.time() // 60)
MinuteOf(t) == t \div SecondsPerMinute

\* CircuitBreakerMetrics.reset_rate_limit: calls_in_current_minute after it
CallsAfterReset ==
    IF MinuteOf(now) # current_minute THEN 0 ELSE calls_in_current_minute

\* mutant: the cap is tested one call late
RateLimitExceededLate(calls) == calls > config.max_calls_per_minute

\* the test of _check_rate_limit
RateLimitExceeded(calls) == calls >= config.max_calls_per_minute

\* mutant: the recovery timeout is not waited for
RecoveryTimeoutIgnored(t, last) ==
    /\ last # NoTime
    /\ last # 0

\* "self.last_failure_time and
\*  current_time - self.last_failure_time >= self.config.recovery_timeout"
RecoveryTimeoutElapsed(t, last) ==
    /\ last # NoTime
    /\ last # 0
    /\ t - last >= config.recovery_timeout

\* mutant: enough successes close the circuit from any state
StateAfterSuccessAnyState(st, successes) ==
    IF successes >= config.success_threshold THEN CLOSED ELSE st

\* the state _record_success leaves, given the incremented success count
StateAfterSuccess(st, successes) ==
    IF st = HALF_OPEN /\ successes >= config.success_threshold
    THEN CLOSED ELSE st

\* mutant: the circuit opens one failure late
StateAfterFailureLate(st, failures) ==
    IF st = CLOSED /\ failures > config.failure_threshold THEN OPEN
    ELSE IF st = HALF_OPEN THEN OPEN
    ELSE st

\* the state _record_failure leaves, given the incremented failure count
StateAfterFailure(st, failures) ==
    IF st = CLOSED /\ failures >= config.failure_threshold THEN OPEN
    ELSE IF st = HALF_OPEN THEN OPEN
    ELSE st

\* mutant: the successes counted before HALF_OPEN are kept
SuccessesOnAdmissionKept(st, successes) == successes

\* consecutive_successes after _check_circuit_state has let the call pass
SuccessesOnAdmission(st, successes) == IF st = OPEN THEN 0 ELSE successes

\* CircuitBreaker.call up to the invocation of func: the locked section
\* (_check_rate_limit, _check_circuit_state, the request counters)
CallBegin(c) ==
    /\ call_pc[c] = "idle"
    /\ current_minute' = MinuteOf(now)
    /\ IF RateLimitExceeded(CallsAfterReset)
       THEN /\ call_result' = [call_result EXCEPT ![c] = "rate_limited"]
            /\ calls_in_current_minute' = CallsAfterReset
            /\ UNCHANGED <<state, consecutive_successes, call_pc,
                           invoked_in_minute>>
       ELSE IF state = OPEN
                 /\ ~RecoveryTimeoutElapsed(now, last_failure_time)
       THEN /\ call_result' = [call_result EXCEPT ![c] = "circuit_open"]
            /\ calls_in_current_minute' = CallsAfterReset
            /\ UNCHANGED <<state, consecutive_successes, call_pc,
                           invoked_in_minute>>
       ELSE /\ state' = IF state = OPEN THEN HALF_OPEN ELSE state
            /\ consecutive_successes' =
                   SuccessesOnAdmission(state, consecutive_successes)
            /\ invoked_in_minute' = invoked_in_minute + 1
            /\ calls_in_current_minute' = CallsAfterReset + 1
            /\ call_pc' = [call_pc EXCEPT ![c] = "executing"]
            /\ call_result' = [call_result EXCEPT ![c] = "pending"]
    /\ UNCHANGED <<config, consecutive_failures, last_failure_time, now,
                   opened_at, half_open_successes>>
    /\ UNCHANGED <<exec_vars, rl_vars, bo_vars, eh_vars>>

\* func returns: _record_success
CallSucceeds(c) ==
    /\ call_pc[c] = "executing"
    /\ consecutive_failures' = 0
    /\ consecutive_successes' = consecutive_successes + 1
    /\ state' = StateAfterSuccess(state, consecutive_successes + 1)
    /\ half_open_successes' = IF state = HALF_OPEN /\ state' = HALF_OPEN
                              THEN half_open_successes + 1 ELSE 0
    /\ call_pc' = [call_pc EXCEPT ![c] = "idle"]
    /\ call_result' = [call_result EXCEPT ![c] = "ok"]
    /\ UNCHANGED <<config, last_failure_time, calls_in_current_minute,
                   current_minute, now, opened_at, invoked_in_minute>>
    /\ UNCHANGED <<exec_vars, rl_vars, bo_vars, eh_vars>>

\* _record_failure
RecordFailure ==
    /\ consecutive_successes' = 0
    /\ consecutive_failures' = consecutive_failures + 1
    /\ last_failure_time' = now
    /\ state' = StateAfterFailure(state, consecutive_failures + 1)
    /\ opened_at' = IF state' = OPEN /\ state # OPEN THEN now ELSE opened_at
    /\ half_open_successes' = 0

\* func raises: _record_failure, and the exception is raised again
CallFails(c) ==
    /\ call_pc[c] = "executing"
    /\ RecordFailure
    /\ call_pc' = [call_pc EXCEPT ![c] = "idle"]
    /\ call_result' = [call_result EXCEPT ![c] = "error"]
    /\ UNCHANGED <<config, calls_in_current_minute, current_minute, now,
                   invoked_in_minute>>
    /\ UNCHANGED <<exec_vars, rl_vars, bo_vars, eh_vars>>

\* asyncio.wait_for times out (config.timeout is below the resolution of
\* the model's clock): _record_timeout, which records a failure
CallTimesOut(c) ==
    /\ call_pc[c] = "executing"
    /\ RecordFailure
    /\ call_pc' = [call_pc EXCEPT ![c] = "idle"]
    /\ call_result' = [call_result EXCEPT ![c] = "timeout"]
    /\ UNCHANGED <<config, calls_in_current_minute, current_minute, now,
                   invoked_in_minute>>
    /\ UNCHANGED <<exec_vars, rl_vars, bo_vars, eh_vars>>

\* time.time() moves on
ClockAdvances ==
    /\ now < ClockStep * MaxClockSteps
    /\ now' = now + ClockStep
    /\ invoked_in_minute' = IF MinuteOf(now') # MinuteOf(now)
                            THEN 0 ELSE invoked_in_minute
    /\ UNCHANGED <<config, state, consecutive_failures,
                   consecutive_successes, last_failure_time,
                   calls_in_current_minute, current_minute, call_pc,
                   call_result, opened_at, half_open_successes>>
    /\ UNCHANGED <<exec_vars, rl_vars, bo_vars, eh_vars>>

\* CircuitBreaker.__init__ (the clock reads a positive time)
NewBreaker ==
    /\ state = CLOSED
    /\ consecutive_failures = 0
    /\ consecutive_successes = 0
    /\ last_failure_time = NoTime
    /\ calls_in_current_minute = 0
    /\ now = ClockStep
    /\ current_minute = MinuteOf(now)
    /\ call_pc = [c \in Callers |-> "idle"]
    /\ call_result = [c \in Callers |-> "none"]
    /\ opened_at = NoTime
    /\ half_open_successes = 0
    /\ invoked_in_minute = 0

\* the breaker of a specification that exercises the executor only
IdleBreaker ==
    /\ config = [failure_threshold |-> 1, success_threshold |-> 1,
                 recovery_timeout |-> ClockStep, max_calls_per_minute |-> 1]
    /\ NewBreaker

(***************************************************************************)
(* BackoffCalculator                                                       *)
(***************************************************************************)
MaxAttempt == 6             \* small attempt numbers are drawn from 1..this
DelayScale == 100           \* delays are held in 1/DelayScale of a second
ValueCap == 64              \* powers and Fibonacci numbers are followed up to
                            \* this value; larger ones are only known to be
                            \* at least this large (min(max_delay, .) clamps
                            \* them all)

\* the smallest e for which the float 2.0 ** e raises OverflowError
DoubleMaxExp == 1024

FIXED == "fixed"
LINEAR == "linear"
EXPONENTIAL == "exponential"
EXPONENTIAL_JITTER == "exponential_jitter"
FIBONACCI == "fibonacci"
BackoffStrategy == {FIXED, LINEAR, EXPONENTIAL, EXPONENTIAL_JITTER, FIBONACCI}

\* outcomes of a call: the delay returned, or the exception raised
NotCalled == [status |-> "not called", delay |-> 0]
OverflowError == [status |-> "OverflowError", delay |-> 0]
Returned(delay) == [status |-> "returned", delay |-> delay]

Min(a, b) == IF a <= b THEN a ELSE b
Max(a, b) == IF a >= b THEN a ELSE b

\* arguments explored: attempts around the float range's end as well as
\* small ones; initial_delay 1.0 and 2.0; max_delay 5.0 and 60.0;
\* multiplier 1.0 and 2.0; jitter_factor 0.1 and 3.0 (in hundredths)
AttemptChoices ==
    1..MaxAttempt \cup {DoubleMaxExp - 1, DoubleMaxExp, DoubleMaxExp + 1}
BackoffArgChoices ==
    [strategy : BackoffStrategy, attempt : AttemptChoices,
     initial_delay : {DelayScale, 2 * DelayScale},
     max_delay : {5 * DelayScale, 60 * DelayScale},
     multiplier : {1, 2}, jitter_factor : {10, 300}]

\* values of random.random(), in hundredths
RandomChoices == {0, 50, 99}

\* multiplier ** n raises OverflowError (float multipliers 1.0 and 2.0)
PowOverflows(multiplier, n) == multiplier = 2 /\ n >= DoubleMaxExp

\* multiplier ** n, followed up to ValueCap
RECURSIVE PowUpTo(_, _, _)
PowUpTo(multiplier, n, acc) ==
    IF n <= 0 \/ acc >= ValueCap THEN acc
    ELSE PowUpTo(multiplier, n - 1, acc * multiplier)
Power(multiplier, n) == IF multiplier = 1 THEN 1 ELSE PowUpTo(multiplier, n, 1)

\* the for loop of _fibonacci from index i on, followed up to ValueCap
RECURSIVE FibLoop(_, _, _, _)
FibLoop(i, n, a, b) ==
    IF i > n \/ b >= ValueCap THEN b ELSE FibLoop(i + 1, n, b, a + b)

\* BackoffCalculator._fibonacci
Fibonacci(n) == IF n <= 1 THEN 1 ELSE FibLoop(2, n, 1, 1)

\* "delay * jitter_factor * (random.random() - 0.5)"
Jitter(delay, jitter_factor, r) == (delay * jitter_factor * (r - 50)) \div 10000

\* BackoffCalculator.calculate_backoff with random.random() returning r
CalculateBackoff(a, r) ==
    IF /\ a.strategy \in {EXPONENTIAL, EXPONENTIAL_JITTER}
       /\ PowOverflows(a.multiplier, a.attempt - 1)
    THEN OverflowError
    ELSE LET exponential ==
                 a.initial_delay * Power(a.multiplier, a.attempt - 1)
             delay ==
                 CASE a.strategy = FIXED -> a.initial_delay
                   [] a.strategy = LINEAR -> a.initial_delay * a.attempt
                   [] a.strategy = EXPONENTIAL -> exponential
                   [] a.strategy = EXPONENTIAL_JITTER ->
                          exponential
                              + Jitter(exponential, a.jitter_factor, r)
                   [] a.strategy = FIBONACCI ->
                          a.initial_delay * Fibonacci(a.attempt)
         IN  Returned(Max(0, Min(a.max_delay, delay)))

\* a caller invokes calculate_backoff
CalculateBackoffCall ==
    /\ backoff_delay = NotCalled
    /\ \E r \in RandomChoices :
          backoff_delay' = CalculateBackoff(backoff_args, r)
    /\ UNCHANGED <<backoff_args, exec_vars, cb_vars, rl_vars, eh_vars>>

InitBackoffCalculator ==
    /\ backoff_args \in BackoffArgChoices
    /\ backoff_delay = NotCalled

\* the calculator of a specification that exercises other components
IdleBackoffCalculator ==
    /\ backoff_args = [strategy |-> FIXED, attempt |-> 1,
                       initial_delay |-> DelayScale,
                       max_delay |-> 5 * DelayScale,
                       multiplier |-> 1, jitter_factor |-> 10]
    /\ backoff_delay = NotCalled

(***************************************************************************)
(* TokenBucket                                                             *)
(***************************************************************************)
TokenScale == 2             \* token counts are held in 1/TokenScale of a token
MaxCapacity == 3            \* capacity is drawn from 1..this
MaxRefillRate == 2          \* refill_rate, in 1/TokenScale tokens per second,
                            \* is drawn from 0..this
MaxConsume == 3             \* try_consume amounts are drawn from 1..this
MaxTime == 6                \* the clock is followed from 0 to this, in seconds

\* TokenBucket(capacity, refill_rate) built at time t
NewTokenBucket(capacity, refill_rate, t) ==
    [capacity |-> capacity, tokens |-> capacity * TokenScale,
     refill_rate |-> refill_rate, last_refill |-> t]

\* mutant: the refill is not capped
RefillUncapped(b, t) ==
    [b EXCEPT !.last_refill = t,
              !.tokens = b.tokens + (t - b.last_refill) * b.refill_rate]

\* TokenBucket._refill at time t
Refill(b, t) ==
    [b EXCEPT !.last_refill = t,
              !.tokens = Min(b.capacity * TokenScale,
                             b.tokens + (t - b.last_refill) * b.refill_rate)]

\* TokenBucket.try_consume(n) at time t: the bucket it leaves and its result
TryConsume(b, n, t) ==
    LET refilled == Refill(b, t)
    IN  IF refilled.tokens >= n * TokenScale
        THEN [bucket |-> [refilled EXCEPT !.tokens = @ - n * TokenScale],
              ok |-> TRUE]
        ELSE [bucket |-> refilled, ok |-> FALSE]

NoBucketOp == [op |-> "none", n |-> 0, ok |-> TRUE]

\* a caller invokes try_consume(n)
BucketTryConsume(n) ==
    /\ token_bucket' = TryConsume(token_bucket, n, rl_now).bucket
    /\ bk_last' = [op |-> "try_consume", n |-> n,
                   ok |-> TryConsume(token_bucket, n, rl_now).ok]
    /\ UNCHANGED <<rl_now, al_vars, exec_vars, cb_vars, bo_vars, eh_vars>>

\* a caller invokes _refill
BucketRefill ==
    /\ token_bucket' = Refill(token_bucket, rl_now)
    /\ bk_last' = [op |-> "refill", n |-> 0, ok |-> TRUE]
    /\ UNCHANGED <<rl_now, al_vars, exec_vars, cb_vars, bo_vars, eh_vars>>

\* time.time() moves on by one or two seconds
BucketClockAdvances ==
    /\ \E d \in 1..2 :
          /\ rl_now + d <= MaxTime
          /\ rl_now' = rl_now + d
    /\ UNCHANGED <<token_bucket, bk_last, al_vars, exec_vars, cb_vars,
                   bo_vars, eh_vars>>

InitBucket ==
    /\ rl_now = 0
    /\ token_bucket \in {NewTokenBucket(c, r, 0) :
                            c \in 1..MaxCapacity, r \in 0..MaxRefillRate}
    /\ bk_last = NoBucketOp

\* the bucket of a specification that exercises other components
IdleBucket ==
    /\ rl_now = 0
    /\ token_bucket = NewTokenBucket(1, 1, 0)
    /\ bk_last = NoBucketOp

(***************************************************************************)
(* AdaptiveRateLimiter                                                     *)
(***************************************************************************)
MaxRequests == 2            \* max_requests, and the tokens of an acquire, are 1 or this
MaxFailureThreshold == 2    \* failure_threshold is 1 or this
WindowSeconds == 2          \* time_window_seconds of the limiters explored
LimiterMaxTime == 4         \* the limiter's clock stops here
MaxStreak == 12             \* streaks built by direct calls stop here

MultiplierScale == 10       \* adaptive_multiplier is held in tenths
FailureStreakLimit == 3     \* "if self.failure_streak > 3"
SuccessStreakLimit == 10    \* "if self.success_streak > 10"
MultiplierDecrease == 2     \* "- 0.2", in tenths
MultiplierIncrease == 1     \* "+ 0.1", in tenths
MultiplierFloor == 1        \* "max(0.1, ...)", in tenths
AttemptCap == 10            \* "min(self.consecutive_failures, 10)"

RLCallers == {"r1"}         \* coroutines calling call_with_rate_limit

\* RateLimitConfig values explored: the backoff starts at 1 s, is capped at
\* 5 s and doubles (Exponential) or stays (Fixed)
RateLimitConfigChoices ==
    [max_requests : {1, MaxRequests},
     time_window_seconds : {WindowSeconds},
     burst_capacity : {1, MaxCapacity},
     burst_refill_rate : {1, MaxRefillRate},
     failure_threshold : {1, MaxFailureThreshold},
     backoff_strategy : {FIXED, EXPONENTIAL},
     initial_backoff_seconds : {DelayScale},
     max_backoff_seconds : {5 * DelayScale},
     backoff_multiplier : {2},
     jitter_factor : {10}]

\* AdaptiveRateLimiter.__init__
NewLimiter(cfg) ==
    [config |-> cfg, request_times |-> <<>>, consecutive_failures |-> 0,
     success_streak |-> 0, failure_streak |-> 0,
     adaptive_multiplier |-> MultiplierScale, backoff_until |-> 0]

NoAcquire == [kind |-> "none", tokens |-> 0, retry_after |-> 0]

\* mutant: the backoff is taken to end one second early
InBackoffEndsEarly(t, until) == (t + 1) * DelayScale < until

\* "if current_time < self.backoff_until"
InBackoff(t, until) == t * DelayScale < until

\* _trigger_backoff: the new backoff_until
TriggerBackoff(l, t, r) ==
    t * DelayScale
        + CalculateBackoff(
              [strategy |-> l.config.backoff_strategy,
               attempt |-> Min(l.consecutive_failures, AttemptCap),
               initial_delay |-> l.config.initial_backoff_seconds,
               max_delay |-> l.config.max_backoff_seconds,
               multiplier |-> l.config.backoff_multiplier,
               jitter_factor |-> l.config.jitter_factor], r).delay

\* _record_failure at time t
RecordLimiterFailure(l, t, r) ==
    LET counted == [l EXCEPT !.consecutive_failures = @ + 1,
                             !.success_streak = 0,
                             !.failure_streak = @ + 1]
        reduced == IF counted.failure_streak > FailureStreakLimit
                   THEN [counted EXCEPT !.adaptive_multiplier =
                            Max(MultiplierFloor, @ - MultiplierDecrease)]
                   ELSE counted
    IN  IF reduced.consecutive_failures >= l.config.failure_threshold
        THEN [reduced EXCEPT !.backoff_until = TriggerBackoff(reduced, t, r)]
        ELSE reduced

\* mutant: the multiplier is raised from the tenth success of a streak
RecordLimiterSuccessEager(l) ==
    LET counted == [l EXCEPT !.consecutive_failures = 0,
                             !.failure_streak = 0,
                             !.success_streak = @ + 1]
    IN  IF /\ counted.success_streak >= SuccessStreakLimit
           /\ counted.adaptive_multiplier < MultiplierScale
        THEN [counted EXCEPT !.adaptive_multiplier =
                 Min(MultiplierScale, @ + MultiplierIncrease)]
        ELSE counted

\* _record_success
RecordLimiterSuccess(l) ==
    LET counted == [l EXCEPT !.consecutive_failures = 0,
                             !.failure_streak = 0,
                             !.success_streak = @ + 1]
    IN  IF /\ counted.success_streak > SuccessStreakLimit
           /\ counted.adaptive_multiplier < MultiplierScale
        THEN [counted EXCEPT !.adaptive_multiplier =
                 Min(MultiplierScale, @ + MultiplierIncrease)]
        ELSE counted

\* "[t for t in self.request_times if t > window_start]"
InWindow(times, t, window) == SelectSeq(times, LAMBDA x : x > t - window)

\* "int(self.config.max_requests * self.adaptive_multiplier)"
AdjustedMaxRequests(l) ==
    (l.config.max_requests * l.adaptive_multiplier) \div MultiplierScale

\* mutant: the request being made is not counted
WindowExceededBefore(held, tokens, adjusted) == held > adjusted

\* "if len(self.request_times) + tokens > adjusted_max_requests"
WindowExceeded(held, tokens, adjusted) == held + tokens > adjusted

\* n copies of t
Copies(n, t) == [i \in 1..n |-> t]

\* AdaptiveRateLimiter.acquire(tokens) at time t: the limiter and the bucket
\* it leaves and its outcome (backoff and bucket: the exception raised;
\* window: False returned; admitted: True returned)
AcquireOutcome(l, b, tokens, t, r) ==
    IF InBackoff(t, l.backoff_until)
    THEN [limiter |-> l, bucket |-> b,
          last |-> [kind |-> "backoff", tokens |-> tokens,
                    retry_after |-> l.backoff_until - t * DelayScale]]
    ELSE LET kept == InWindow(l.request_times, t,
                              l.config.time_window_seconds)
             pruned == [l EXCEPT !.request_times = kept]
         IN  IF WindowExceeded(Len(kept), tokens, AdjustedMaxRequests(l))
             THEN [limiter |-> RecordLimiterFailure(pruned, t, r),
                   bucket |-> b,
                   last |-> [kind |-> "window", tokens |-> tokens,
                             retry_after |-> 0]]
             ELSE LET added == [pruned EXCEPT !.request_times =
                                   kept \o Copies(tokens, t)]
                      consumed == TryConsume(b, tokens, t)
                  IN  IF ~consumed.ok
                      THEN [limiter |-> added, bucket |-> consumed.bucket,
                            last |-> [kind |-> "bucket", tokens |-> tokens,
                                      retry_after |-> 1]]
                      ELSE [limiter |-> RecordLimiterSuccess(added),
                            bucket |-> consumed.bucket,
                            last |-> [kind |-> "admitted", tokens |-> tokens,
                                      retry_after |-> 0]]

\* no call of the run counted, none in flight
NoFailingCalls == [count |-> 0, admitted |-> FALSE]

\* the effect of an acquire on the limiter's state
Acquired(out) ==
    /\ limiter' = out.limiter
    /\ token_bucket' = out.bucket
    /\ rl_last' = out.last
    /\ admitted_times' = IF out.last.kind = "admitted"
                         THEN admitted_times
                                  \o Copies(out.last.tokens, rl_now)
                         ELSE admitted_times

\* a caller invokes acquire(tokens)
Acquire(tokens) ==
    /\ \E r \in RandomChoices :
          Acquired(AcquireOutcome(limiter, token_bucket, tokens, rl_now, r))
    /\ failing_calls' = NoFailingCalls
    /\ UNCHANGED <<rl_now, bk_last, rl_pc, exec_vars, cb_vars, bo_vars, eh_vars>>

\* call_with_rate_limit up to the invocation of func: "await self.acquire()"
\* raises, or returns a value that is not looked at
CallWithRateLimit(c) ==
    /\ rl_pc[c] = "idle"
    /\ \E r \in RandomChoices :
          LET out == AcquireOutcome(limiter, token_bucket, 1, rl_now, r)
          IN  /\ Acquired(out)
              /\ rl_pc' = IF out.last.kind \in {"backoff", "bucket"}
                          THEN rl_pc
                          ELSE [rl_pc EXCEPT ![c] = "executing"]
              /\ failing_calls' = IF out.last.kind = "admitted"
                                  THEN [failing_calls EXCEPT
                                           !.admitted = TRUE]
                                  ELSE NoFailingCalls
    /\ UNCHANGED <<rl_now, bk_last, exec_vars, cb_vars, bo_vars, eh_vars>>

\* func returns
FuncReturns(c) ==
    /\ rl_pc[c] = "executing"
    /\ rl_pc' = [rl_pc EXCEPT ![c] = "idle"]
    /\ failing_calls' = NoFailingCalls
    /\ UNCHANGED <<rl_now, token_bucket, bk_last, limiter, rl_last,
                   admitted_times, exec_vars, cb_vars, bo_vars, eh_vars>>

\* func raises: _record_failure(time.time()), and the exception is raised
\* again
FuncRaises(c) ==
    /\ rl_pc[c] = "executing"
    /\ rl_pc' = [rl_pc EXCEPT ![c] = "idle"]
    /\ \E r \in RandomChoices :
          limiter' = RecordLimiterFailure(limiter, rl_now, r)
    /\ failing_calls' = IF failing_calls.admitted
                        THEN [count |-> failing_calls.count + 1,
                              admitted |-> FALSE]
                        ELSE NoFailingCalls
    /\ UNCHANGED <<rl_now, token_bucket, bk_last, rl_last, admitted_times,
                   exec_vars, cb_vars, bo_vars, eh_vars>>

\* time.time() moves on by a second
LimiterClockAdvances ==
    /\ rl_now < LimiterMaxTime
    /\ rl_now' = rl_now + 1
    /\ admitted_times' = InWindow(admitted_times, rl_now + 1,
                                  limiter.config.time_window_seconds)
    /\ UNCHANGED <<token_bucket, bk_last, limiter, rl_pc, rl_last,
                   failing_calls, exec_vars, cb_vars, bo_vars, eh_vars>>

\* AdaptiveRateLimiter.reset: the limiter as constructed, the bucket full
\* (last_refill is left alone); the histories start again with it
Reset ==
    /\ limiter' = NewLimiter(limiter.config)
    /\ token_bucket' = [token_bucket EXCEPT
                            !.tokens = token_bucket.capacity * TokenScale]
    /\ rl_last' = NoAcquire
    /\ admitted_times' = <<>>
    /\ failing_calls' = NoFailingCalls
    /\ UNCHANGED <<rl_now, bk_last, rl_pc, exec_vars, cb_vars, bo_vars, eh_vars>>

\* _record_success called on its own, as test_adaptive_rate_adjustment does
RecordSuccessCall ==
    /\ limiter.success_streak < MaxStreak
    /\ limiter' = RecordLimiterSuccess(limiter)
    /\ failing_calls' = NoFailingCalls
    /\ UNCHANGED <<rl_now, token_bucket, bk_last, rl_pc, rl_last,
                   admitted_times, exec_vars, cb_vars, bo_vars, eh_vars>>

\* _record_failure(time.time()) called on its own
RecordFailureCall ==
    /\ limiter.failure_streak < MaxStreak
    /\ \E r \in RandomChoices :
          limiter' = RecordLimiterFailure(limiter, rl_now, r)
    /\ failing_calls' = NoFailingCalls
    /\ UNCHANGED <<rl_now, token_bucket, bk_last, rl_pc, rl_last,
                   admitted_times, exec_vars, cb_vars, bo_vars, eh_vars>>

InitLimiter ==
    /\ rl_now = 0
    /\ bk_last = NoBucketOp
    /\ \E cfg \in RateLimitConfigChoices :
          /\ limiter = NewLimiter(cfg)
          /\ token_bucket = NewTokenBucket(cfg.burst_capacity,
                                           cfg.burst_refill_rate, 0)
    /\ rl_pc = [c \in RLCallers |-> "idle"]
    /\ rl_last = NoAcquire
    /\ admitted_times = <<>>
    /\ failing_calls = NoFailingCalls

\* the limiter of a specification that exercises other components
IdleLimiter ==
    /\ limiter = NewLimiter(
           [max_requests |-> 1, time_window_seconds |-> WindowSeconds,
            burst_capacity |-> 1, burst_refill_rate |-> 1,
            failure_threshold |-> 1, backoff_strategy |-> FIXED,
            initial_backoff_seconds |-> DelayScale,
            max_backoff_seconds |-> 5 * DelayScale,
            backoff_multiplier |-> 2, jitter_factor |-> 10])
    /\ rl_pc = [c \in RLCallers |-> "idle"]
    /\ rl_last = NoAcquire
    /\ admitted_times = <<>>
    /\ failing_calls = NoFailingCalls

(***************************************************************************)
(* ErrorHandler.handle_with_retry                                          *)
(***************************************************************************)
MaxRetryAttempts == 3       \* max_attempts is drawn from 1..this

\* ErrorCategory, by the values of its members
ErrorCategory ==
    {"authentication", "authorization", "validation", "business_logic",
     "external_service", "network", "database", "file_system",
     "rate_limiting", "circuit_breaker", "timeout", "security", "system",
     "unknown"}

\* RetryConfig with retryable_exceptions and non_retryable_exceptions left
\* at None, as in the default
RetryConfigChoices == [max_attempts : 1..MaxRetryAttempts]

NoException == [category |-> "none"]

NewErrorHandlingMetrics ==
    [total_errors |-> 0, retries_attempted |-> 0, successful_retries |-> 0,
     failed_retries |-> 0]

\* mutant: a circuit-breaker rejection is retried as well
IsRetryableErrorWider(exc) ==
    exc.category \in {"network", "external_service", "timeout",
                      "rate_limiting", "circuit_breaker"}

\* is_retryable_error of a PhantomBaseException
IsRetryableError(exc) ==
    exc.category \in {"network", "external_service", "timeout",
                      "rate_limiting"}

\* ErrorHandler._is_retryable with neither list of exception types set
IsRetryable(exc, cfg) == IsRetryableError(exc)

\* func returns: handle_with_retry returns its result
AttemptSucceeds ==
    /\ eh_pc = "attempt"
    /\ eh_invocations' = eh_invocations + 1
    /\ eh_metrics' = IF attempt > 1
                     THEN [eh_metrics EXCEPT !.successful_retries = @ + 1]
                     ELSE eh_metrics
    /\ eh_pc' = "returned"
    /\ UNCHANGED <<retry_config, attempt, phantom_exc, exec_vars, cb_vars,
                   rl_vars, bo_vars>>

\* func raises an exception that _classify_exception puts in the category:
\* raised again when not retryable or when no attempt remains, else the
\* handler sleeps for the retry delay
AttemptRaises(category) ==
    /\ eh_pc = "attempt"
    /\ eh_invocations' = eh_invocations + 1
    /\ phantom_exc' = [category |-> category]
    /\ LET counted == [eh_metrics EXCEPT !.total_errors = @ + 1]
       IN  IF ~IsRetryable([category |-> category], retry_config)
           THEN /\ eh_pc' = "raised"
                /\ eh_metrics' = counted
           ELSE IF attempt >= retry_config.max_attempts
                THEN /\ eh_pc' = "raised"
                     /\ eh_metrics' =
                            [counted EXCEPT !.failed_retries = @ + 1]
                ELSE /\ eh_pc' = "sleeping"
                     /\ eh_metrics' =
                            [counted EXCEPT !.retries_attempted = @ + 1]
    /\ UNCHANGED <<retry_config, attempt, exec_vars, cb_vars, rl_vars,
                   bo_vars>>

\* asyncio.sleep(retry_delay) is over: the loop goes to the next attempt
RetrySleepEnds ==
    /\ eh_pc = "sleeping"
    /\ attempt' = attempt + 1
    /\ eh_pc' = "attempt"
    /\ UNCHANGED <<retry_config, eh_invocations, phantom_exc, eh_metrics,
                   exec_vars, cb_vars, rl_vars, bo_vars>>

InitErrorHandler ==
    /\ retry_config \in RetryConfigChoices
    /\ attempt = 1
    /\ eh_pc = "attempt"
    /\ eh_invocations = 0
    /\ phantom_exc = NoException
    /\ eh_metrics = NewErrorHandlingMetrics

\* the handler of a specification that exercises other components
IdleErrorHandler ==
    /\ retry_config = [max_attempts |-> 1]
    /\ attempt = 1
    /\ eh_pc = "returned"
    /\ eh_invocations = 0
    /\ phantom_exc = NoException
    /\ eh_metrics = NewErrorHandlingMetrics

(***************************************************************************)
(* Specifications                                                          *)
(***************************************************************************)
\* ResourceLimits of the dependency-graph families: the class ceilings keep
\* their defaults, the global ceiling varies
InitGraphs ==
    /\ IdleErrorHandler
    /\ IdleBreaker
    /\ IdleBucket
    /\ IdleLimiter
    /\ IdleBackoffCalculator
    /\ InitExecutor
    /\ limits \in [max_concurrent_tasks : 1..MaxLimit,
                   max_cpu_intensive_tasks : {DefaultMaxCpuIntensiveTasks},
                   max_network_tasks : {DefaultMaxNetworkTasks}]

\* ResourceLimits of the independent-task family: every ceiling varies
InitIndependent ==
    /\ IdleErrorHandler
    /\ IdleBreaker
    /\ IdleBucket
    /\ IdleLimiter
    /\ IdleBackoffCalculator
    /\ InitExecutor
    /\ limits \in [max_concurrent_tasks : 1..MaxLimit,
                   max_cpu_intensive_tasks : 1..MaxLimit,
                   max_network_tasks : 1..MaxLimit]

\* the dependency-graph family runs with the process's memory within
\* memory_limit_mb
NextGraphs ==
    \/ \E t \in GraphTaskChoices(TRUE) : AddTask(t)
    \/ ExecuteAll
    \/ LoopIteration
    \/ \E id \in TaskIds, outcome \in {"ok", "fail"} :
          TaskCompleted(id, outcome)

NextNetworkGraphs ==
    \/ \E t \in GraphTaskChoices(FALSE) : AddTask(t)
    \/ ExecuteAll
    \/ LoopIteration
    \/ \E id \in TaskIds, outcome \in {"ok", "fail"} :
          TaskCompleted(id, outcome)

NextIndependent ==
    \/ \E t \in IndependentTaskChoices : AddTask(t)
    \/ ExecuteAll
    \/ LoopIteration
    \/ \E id \in TaskIds, outcome \in {"ok", "fail"} :
          TaskCompleted(id, outcome)
    \/ MemoryLimitExceeded

InitBreaker ==
    /\ IdleExecutor
    /\ IdleErrorHandler
    /\ IdleBucket
    /\ IdleLimiter
    /\ IdleBackoffCalculator
    /\ config \in ConfigChoices
    /\ NewBreaker

NextBreaker ==
    \/ \E c \in Callers : CallBegin(c)
    \/ \E c \in Callers : CallSucceeds(c)
    \/ \E c \in Callers : CallFails(c)
    \/ \E c \in Callers : CallTimesOut(c)
    \/ ClockAdvances

InitBackoff ==
    /\ IdleExecutor
    /\ IdleErrorHandler
    /\ IdleBreaker
    /\ IdleBucket
    /\ IdleLimiter
    /\ InitBackoffCalculator

NextBackoff == CalculateBackoffCall

InitTokenBucket ==
    /\ IdleExecutor
    /\ IdleErrorHandler
    /\ IdleBreaker
    /\ IdleBackoffCalculator
    /\ IdleLimiter
    /\ InitBucket

NextTokenBucket ==
    \/ \E n \in 1..MaxConsume : BucketTryConsume(n)
    \/ BucketRefill
    \/ BucketClockAdvances

InitRateLimiter ==
    /\ IdleExecutor
    /\ IdleErrorHandler
    /\ IdleBreaker
    /\ IdleBackoffCalculator
    /\ InitLimiter

NextRateLimiter ==
    \/ \E tokens \in {1, MaxRequests} : Acquire(tokens)
    \/ \E c \in RLCallers : CallWithRateLimit(c)
    \/ \E c \in RLCallers : FuncReturns(c)
    \/ \E c \in RLCallers : FuncRaises(c)
    \/ LimiterClockAdvances
    \/ Reset

NextAdaptive ==
    \/ RecordSuccessCall
    \/ RecordFailureCall
    \/ Acquire(1)
    \/ Reset

InitRetry ==
    /\ IdleExecutor
    /\ IdleBreaker
    /\ IdleBucket
    /\ IdleLimiter
    /\ IdleBackoffCalculator
    /\ InitErrorHandler

NextRetry ==
    \/ AttemptSucceeds
    \/ \E category \in ErrorCategory : AttemptRaises(category)
    \/ RetrySleepEnds

SpecGraphs == InitGraphs /\ [][NextGraphs]_vars

SpecNetworkGraphs == InitGraphs /\ [][NextNetworkGraphs]_vars

SpecIndependent == InitIndependent /\ [][NextIndependent]_vars

SpecBreaker == InitBreaker /\ [][NextBreaker]_vars

SpecBackoff == InitBackoff /\ [][NextBackoff]_vars

SpecTokenBucket == InitTokenBucket /\ [][NextTokenBucket]_vars

SpecLimiter == InitRateLimiter /\ [][NextRateLimiter]_vars

SpecAdaptive == InitRateLimiter /\ [][NextAdaptive]_vars

SpecRetry == InitRetry /\ [][NextRetry]_vars

(***************************************************************************)
(* Properties of ParallelExecutor                                          *)
(***************************************************************************)
RECURSIVE SumOver(_, _)
SumOver(f, S) ==
    IF S = {} THEN 0
    ELSE LET x == CHOOSE y \in S : TRUE IN f[x] + SumOver(f, S \ {x})

\* operations started whose completion has not been handled yet
OpsInFlight(S) == SumOver(ops, S)
CpuTasks == {id \in Submitted : tasks[id].cpu_intensive}
NetworkTasks == {id \in Submitted : tasks[id].network_intensive}

\* ids reachable from the set S along dependencies, in at most n steps
RECURSIVE DependencyClosure(_, _)
DependencyClosure(S, n) ==
    IF n = 0 THEN S
    ELSE DependencyClosure(
             S \cup UNION {tasks[id].dependencies : id \in S \cap Submitted},
             n - 1)
TransitiveDependencies(id) ==
    DependencyClosure(tasks[id].dependencies, Cardinality(TaskIds))
OnCycle(id) == id \in TransitiveDependencies(id)
Acyclic == \A id \in Submitted : ~OnCycle(id)
DependenciesSubmitted ==
    \A id \in Submitted : tasks[id].dependencies \subseteq Submitted
HasReturned == exec_pc = "returned" /\ returned.status = "completed"

\* C1: a task whose operation has been started has every one of its
\* dependencies in completed_tasks (completed_tasks never shrinks, so the
\* dependencies were completed when the task was started).
C1_DependencyOrdering ==
    \A b \in Submitted :
        start_count[b] > 0 => tasks[b].dependencies \subseteq completed_tasks

\* C1 witness: a task with two dependencies was started after one of its
\* dependencies had failed and been retried.
C1_Witness ==
    \E b \in Submitted :
        /\ start_count[b] > 0
        /\ Cardinality(tasks[b].dependencies) = 2
        /\ \E a \in tasks[b].dependencies \cap Submitted :
              tasks[a].retries > 0

\* C2: the operations in flight never exceed max_concurrent_tasks, those of
\* cpu_intensive tasks never exceed max_cpu_intensive_tasks and those of
\* network_intensive tasks never exceed max_network_tasks.
C2_ResourceCeiling ==
    /\ OpsInFlight(Submitted) <= limits.max_concurrent_tasks
    /\ OpsInFlight(CpuTasks) <= limits.max_cpu_intensive_tasks
    /\ OpsInFlight(NetworkTasks) <= limits.max_network_tasks

\* the bookkeeping a loop iteration begins with
CurrentBookkeeping ==
    [running |-> running_tasks, cpu |-> current_cpu_tasks,
     net |-> current_network_tasks, started |-> ZeroCount]

\* C3: the scheduling loop never spins forever: execute_all is never in its
\* loop with no operation in flight and a loop iteration that changes
\* nothing (it does not return, marks no task failed and starts no task),
\* from where every later iteration is the same one.
C3_LoopNeverSpins ==
    ~ /\ exec_pc = "loop"
      /\ OpsInFlight(Submitted) = 0
      /\ HasPendingTasks
      /\ GetReadyTasks.failed = failed_tasks
      /\ GetReadyTasks.ready # <<>>
      /\ ~CanStartTask(GetReadyTasks.ready[1], CurrentBookkeeping)

\* C4: when execute_all returns, every task on a dependency cycle is in
\* failed_tasks and is a key of the returned errors map.
C4_CycleTasksFailed ==
    HasReturned =>
        \A id \in Submitted : OnCycle(id) => id \in DOMAIN returned.errors

\* C5: for an acyclic task set whose dependency ids are all submitted, the
\* keys of the returned results and errors maps are disjoint and together
\* are the submitted ids.
C5_EveryTaskSettled ==
    (HasReturned /\ Acyclic /\ DependenciesSubmitted) =>
        /\ returned.results \cup DOMAIN returned.errors = Submitted
        /\ returned.results \cap DOMAIN returned.errors = {}

\* a task put in failed_tasks by its executions, none of which returned
FailedByExecution(id) ==
    id \in failed_tasks /\ start_count[id] > 0 /\ ~op_succeeded[id]

NextHigherPriority(p) == IF p = CRITICAL THEN CRITICAL ELSE p - 1

\* C7: a task re-enqueued for retry gets the next-higher priority tier, a
\* Critical task stays Critical.
C7_PriorityEscalation ==
    [][exec_pc # "setup" =>
          \A id \in Submitted :
              (tasks'[id].retries > tasks[id].retries
                  /\ id \notin failed_tasks') =>
                  tasks'[id].priority = NextHigherPriority(tasks[id].priority)
      ]_vars

\* the pending tasks: the queued ids that _get_ready_tasks still looks at
PendingTasks ==
    {task_queue[i] : i \in 1..Len(task_queue)}
        \ (running_tasks \cup completed_tasks \cup failed_tasks)

\* C22: during execute_all the sets pending, running, completed and failed
\* are pairwise disjoint; no task id is in both completed_tasks and
\* failed_tasks
C22_SetsDisjoint ==
    /\ PendingTasks \cap running_tasks = {}
    /\ PendingTasks \cap completed_tasks = {}
    /\ PendingTasks \cap failed_tasks = {}
    /\ running_tasks \cap completed_tasks = {}
    /\ running_tasks \cap failed_tasks = {}
    /\ completed_tasks \cap failed_tasks = {}

\* a task's operation is started in this step
Started(id) == start_count'[id] > start_count[id]

\* a dependency of the task is in the set
HasDependencyIn(id, S) == tasks[id].dependencies \cap S # {}

\* C23: a pending task with a dependency in failed_tasks is never started,
\* and when execute_all returns it is in failed_tasks with the reason
\* "Dependency failed"; a task whose reason is "Dependency failed" has never
\* been started
C23_DependencyFailureDistinct ==
    [][/\ \A id \in Submitted :
             Started(id) => ~HasDependencyIn(id, failed_tasks')
       /\ HasReturned' =>
             \A id \in Submitted :
                 (HasDependencyIn(id, failed_tasks')
                     /\ id \notin completed_tasks'
                     /\ start_count'[id] = 0) =>
                     /\ id \in failed_tasks'
                     /\ tasks'[id].error = DependencyFailed
       /\ \A id \in Submitted :
             tasks'[id].error = DependencyFailed => start_count'[id] = 0
      ]_vars

\* the ids _get_ready_tasks finds ready
ReadySet ==
    LET ready == ScanQueue(1, [ready |-> <<>>, failed |-> failed_tasks]).ready
    IN  {ready[i] : i \in 1..Len(ready)}

\* C24: in every scheduling tick a ready task is started only if every ready
\* task of strictly higher priority was started in that tick
C24_PriorityOrderInTick ==
    [][\A a, b \in ReadySet :
          (Started(b) /\ tasks[a].priority < tasks[b].priority) =>
              Started(a)]_vars

\* the task added second has the higher priority and was started ahead of
\* the first, which waits for the only slot
C24_Witness ==
    /\ {"t1", "t2"} \subseteq Submitted
    /\ tasks["t2"].priority < tasks["t1"].priority
    /\ start_count["t2"] = 1
    /\ start_count["t1"] = 0
    /\ "t2" \in running_tasks
    /\ limits.max_concurrent_tasks = 1

\* C27: each task has at most one execution of its operation in flight: a
\* task is never started while an earlier start of it has not finished
C27_OneExecutionPerTask ==
    [][\A id \in Submitted :
          /\ Started(id) => ops[id] = 0
          /\ ops'[id] <= 1]_vars

(***************************************************************************)
(* Properties of CircuitBreaker                                            *)
(***************************************************************************)
\* the transitions of the breaker's state machine
AllowedTransitions ==
    {<<CLOSED, OPEN>>, <<OPEN, HALF_OPEN>>,
     <<HALF_OPEN, CLOSED>>, <<HALF_OPEN, OPEN>>}

\* C8: under any interleaving of concurrent calls, every change of the
\* breaker's state is CLOSED to OPEN, OPEN to HALF_OPEN, HALF_OPEN to CLOSED
\* or HALF_OPEN to OPEN.
C8_OnlyFourTransitions ==
    [][state' # state => <<state, state'>> \in AllowedTransitions]_vars

\* C8 witness: the breaker has opened and is CLOSED again (it went through
\* OPEN and HALF_OPEN) while another call is still executing.
C8_Witness ==
    /\ state = CLOSED
    /\ opened_at # NoTime
    /\ \E c \in Callers : call_pc[c] = "executing"

\* C9: a CLOSED breaker has consecutive_failures < failure_threshold.
C9_ClosedBelowThreshold ==
    state = CLOSED => consecutive_failures < config.failure_threshold

\* C9 witness: with a threshold above 1, the failure that brought the count
\* to the threshold has opened the breaker.
C9_Witness ==
    /\ state = OPEN
    /\ config.failure_threshold > 1
    /\ consecutive_failures = config.failure_threshold
    /\ opened_at = now

\* C10: a call that begins while the breaker is OPEN, the recovery timeout
\* has not elapsed since it opened and the per-minute cap is not reached
\* raises CircuitOpenException, does not invoke the operation and leaves
\* the breaker OPEN.
C10_OpenCallRejected ==
    [][(/\ state = OPEN
        /\ now - opened_at < config.recovery_timeout
        /\ ~RateLimitExceeded(CallsAfterReset)) =>
          \A c \in Callers :
              (/\ call_pc[c] = "idle"
               /\ (call_pc'[c] # "idle" \/ call_result'[c] # call_result[c]))
                  => /\ call_result'[c] = "circuit_open"
                     /\ call_pc'[c] = "idle"
                     /\ state' = OPEN
      ]_vars

\* C10 witness: a call was rejected with CircuitOpenException some time
\* after the breaker opened and before the recovery timeout elapsed.
C10_Witness ==
    \E c \in Callers :
        /\ call_result[c] = "circuit_open"
        /\ state = OPEN
        /\ now > opened_at
        /\ now - opened_at < config.recovery_timeout

\* caller c's call begins in this step: its locked section runs
CallBegins(c) ==
    /\ call_pc[c] = "idle"
    /\ (call_pc'[c] # "idle" \/ call_result'[c] # call_result[c])

\* caller c's call ends in this step with one of the results rs
CallEnds(c, rs) ==
    /\ call_pc[c] = "executing"
    /\ call_pc'[c] = "idle"
    /\ call_result'[c] \in rs

\* C11: a call that begins while the breaker is OPEN, at or after the time
\* it opened plus recovery_timeout, with the per-minute cap not reached,
\* is admitted: the breaker moves to HALF_OPEN and the operation is invoked.
C11_CooldownFromOpening ==
    [][(/\ state = OPEN
        /\ now - opened_at >= config.recovery_timeout
        /\ ~RateLimitExceeded(CallsAfterReset)) =>
          \A c \in Callers :
              CallBegins(c) => /\ state' = HALF_OPEN
                               /\ call_pc'[c] = "executing"
      ]_vars

\* C12: while HALF_OPEN, a call that fails or times out moves the breaker to
\* OPEN and restarts the cooldown from now; a call that succeeds moves it to
\* CLOSED exactly when it is the success_threshold-th success recorded since
\* the breaker became HALF_OPEN and leaves it HALF_OPEN otherwise.
C12_HalfOpenResolution ==
    [][state = HALF_OPEN =>
          \A c \in Callers :
              /\ CallEnds(c, {"error", "timeout"}) =>
                     /\ state' = OPEN
                     /\ opened_at' = now
                     /\ last_failure_time' = now
              /\ CallEnds(c, {"ok"}) =>
                     state' = IF half_open_successes + 1
                                     = config.success_threshold
                              THEN CLOSED ELSE HALF_OPEN
      ]_vars

\* C12 witness: with success_threshold 2 the breaker has closed on the
\* second success recorded since it became HALF_OPEN.
C12_Witness ==
    /\ state = CLOSED
    /\ opened_at # NoTime
    /\ config.success_threshold = 2
    /\ consecutive_successes = 2

\* C13: the operations invoked within one wall-clock minute never exceed
\* max_calls_per_minute; a call that begins when the cap is reached raises
\* RateLimitExceededException without invoking the operation; the first
\* call of a new minute counts from zero.
C13_PerMinuteCap ==
    [][/\ invoked_in_minute' <= config.max_calls_per_minute
       /\ \A c \in Callers :
              CallBegins(c) =>
                  /\ RateLimitExceeded(CallsAfterReset) =>
                         /\ call_result'[c] = "rate_limited"
                         /\ call_pc'[c] = "idle"
                  /\ MinuteOf(now) # current_minute =>
                         /\ call_result'[c] # "rate_limited"
                         /\ calls_in_current_minute'
                                = IF call_pc'[c] = "executing" THEN 1 ELSE 0
      ]_vars

\* C13 witness: in a later minute, a call was rejected for the rate limit
\* after max_calls_per_minute (more than one) operations were invoked in
\* that minute.
C13_Witness ==
    \E c \in Callers :
        /\ call_result[c] = "rate_limited"
        /\ config.max_calls_per_minute > 1
        /\ invoked_in_minute = config.max_calls_per_minute
        /\ MinuteOf(now) > 0

(***************************************************************************)
(* Properties of TokenBucket and BackoffCalculator                         *)
(***************************************************************************)
\* C14: after every try_consume and _refill, 0 <= tokens <= capacity, and a
\* refill of a full bucket leaves it at capacity.
C14_TokensWithinCapacity ==
    [][/\ 0 <= token_bucket'.tokens
       /\ token_bucket'.tokens <= token_bucket'.capacity * TokenScale
       /\ (/\ bk_last'.op = "refill"
           /\ rl_now' = rl_now
           /\ token_bucket.tokens = token_bucket.capacity * TokenScale)
              => token_bucket'.tokens = token_bucket'.capacity * TokenScale
      ]_vars

\* C14 witness: a refill some time after the last one, at a positive rate,
\* has left the bucket at capacity.
C14_Witness ==
    /\ bk_last.op = "refill"
    /\ token_bucket.refill_rate > 0
    /\ token_bucket.last_refill > 1
    /\ token_bucket.tokens = token_bucket.capacity * TokenScale

\* C15: a try_consume that returns False leaves the token count equal to
\* its value before the call.
C15_FailedConsumeKeepsCount ==
    [][(/\ bk_last'.op = "try_consume"
        /\ ~bk_last'.ok
        /\ rl_now' = rl_now)
          => token_bucket'.tokens = token_bucket.tokens
      ]_vars

\* C19: calculate_backoff returns a delay with 0 <= delay <= max_delay for
\* every strategy and attempt, and for the Exponential strategy the delay
\* of attempt + 1 is at least the delay of attempt.
C19_BackoffMonotoneBounded ==
    backoff_delay # NotCalled =>
        /\ backoff_delay.status = "returned"
        /\ 0 <= backoff_delay.delay
        /\ backoff_delay.delay <= backoff_args.max_delay
        /\ backoff_args.strategy = EXPONENTIAL =>
              LET next == CalculateBackoff(
                              [backoff_args EXCEPT !.attempt = @ + 1], 0)
              IN  /\ next.status = "returned"
                  /\ next.delay >= backoff_delay.delay

\* C20: for the Fibonacci strategy calculate_backoff(n) returns
\* min(max_delay, initial_delay * F(n)) with F(1) = F(2) = 1 and
\* F(n) = F(n-1) + F(n-2).
C20_FibonacciDelay ==
    (backoff_delay # NotCalled /\ backoff_args.strategy = FIBONACCI) =>
        LET F(n) == IF n <= 2 THEN 1 ELSE FibLoop(3, n, 1, 1)
        IN  backoff_delay = Returned(Min(backoff_args.max_delay,
                                         backoff_args.initial_delay
                                             * F(backoff_args.attempt)))

\* a step of acquire: it leaves an outcome, and it alone touches the window
\* and the bucket (reset leaves no outcome)
AcquireStep ==
    /\ rl_last' # NoAcquire
    /\ \/ rl_last' # rl_last
       \/ limiter'.request_times # limiter.request_times
       \/ token_bucket' # token_bucket

\* C16: while now < backoff_until every acquire is rejected with
\* retry_after = backoff_until - now > 0 and leaves the sliding window's
\* timestamps, the bucket's token count, the consecutive-failure count and the
\* adaptive multiplier unchanged
C16_BackoffRejectsUntouched ==
    [][(rl_now * DelayScale < limiter.backoff_until /\ AcquireStep) =>
          /\ rl_last'.kind = "backoff"
          /\ rl_last'.retry_after
                 = limiter.backoff_until - rl_now * DelayScale
          /\ rl_last'.retry_after > 0
          /\ limiter'.request_times = limiter.request_times
          /\ token_bucket'.tokens = token_bucket.tokens
          /\ limiter'.consecutive_failures = limiter.consecutive_failures
          /\ limiter'.adaptive_multiplier = limiter.adaptive_multiplier]_vars

\* an acquire was rejected during a backoff that is still on, with timestamps
\* in the window and the bucket partly used
C16_Witness ==
    /\ rl_last.kind = "backoff"
    /\ rl_last.retry_after > 0
    /\ rl_now * DelayScale < limiter.backoff_until
    /\ limiter.request_times # <<>>
    /\ token_bucket.tokens < token_bucket.capacity * TokenScale

\* the tokens admitted in the window that ends now
AdmittedInWindow(times, t) ==
    Len(InWindow(times, t, limiter.config.time_window_seconds))

C18_ExecutesOnlyAdmitted ==
    [][\A c \in RLCallers :
          (rl_pc[c] = "idle" /\ rl_pc'[c] = "executing") =>
              rl_last'.kind = "admitted"]_vars

\* calculate_backoff(strategy, attempt) with the limiter's configuration
ConfiguredBackoff(l, n) ==
    CalculateBackoff(
        [strategy |-> l.config.backoff_strategy, attempt |-> n,
         initial_delay |-> l.config.initial_backoff_seconds,
         max_delay |-> l.config.max_backoff_seconds,
         multiplier |-> l.config.backoff_multiplier,
         jitter_factor |-> l.config.jitter_factor], 50).delay

\* C25: an acquire rejected by the sliding window or by the token bucket
\* records a failure: consecutive_failures is incremented, the success
\* streak is reset to 0, and from failure_threshold on backoff_until is set
\* to now + calculate_backoff(strategy, consecutive_failures)
C25_RejectionRecordsFailure ==
    [][(AcquireStep /\ rl_last'.kind \in {"window", "bucket"}) =>
          /\ limiter'.consecutive_failures = limiter.consecutive_failures + 1
          /\ limiter'.success_streak = 0
          /\ limiter'.consecutive_failures
                 >= limiter.config.failure_threshold =>
                 limiter'.backoff_until =
                     rl_now * DelayScale
                         + ConfiguredBackoff(limiter,
                               limiter'.consecutive_failures)]_vars

\* a step of reset
ResetStep == limiter' = NewLimiter(limiter.config) /\ rl_last' = NoAcquire

\* C26: the adaptive multiplier is within [0.1, 1.0]; it goes up, by 0.1
\* capped at 1.0, only on a recorded success that makes the success streak
\* exceed 10, and down, by 0.2 floored at 0.1, only on a recorded failure
\* that makes the failure streak exceed 3; nothing else but reset changes it
C26_MultiplierAdjustment ==
    [][/\ limiter'.adaptive_multiplier \in 1..10
       /\ limiter'.adaptive_multiplier > limiter.adaptive_multiplier =>
             \/ ResetStep
             \/ /\ limiter'.success_streak = limiter.success_streak + 1
                /\ limiter'.success_streak > 10
                /\ limiter'.adaptive_multiplier =
                       IF limiter.adaptive_multiplier + 1 > 10 THEN 10
                       ELSE limiter.adaptive_multiplier + 1
       /\ limiter'.adaptive_multiplier < limiter.adaptive_multiplier =>
             /\ limiter'.failure_streak = limiter.failure_streak + 1
             /\ limiter'.failure_streak > 3
             /\ limiter'.adaptive_multiplier =
                    IF limiter.adaptive_multiplier - 2 < 1 THEN 1
                    ELSE limiter.adaptive_multiplier - 2
       /\ (limiter'.adaptive_multiplier = limiter.adaptive_multiplier
              /\ ~ResetStep) =>
             /\ ~ /\ limiter'.success_streak = limiter.success_streak + 1
                  /\ limiter'.success_streak > 10
                  /\ limiter.adaptive_multiplier < 10
             /\ ~ /\ limiter'.failure_streak = limiter.failure_streak + 1
                  /\ limiter'.failure_streak > 3
                  /\ limiter.adaptive_multiplier > 1]_vars

\* the multiplier went down to 0.8 and an eleventh success in a row has
\* brought it to 0.9
C26_Witness ==
    /\ limiter.adaptive_multiplier = 9
    /\ limiter.success_streak = 11

\* C28: the timestamps held in the trailing window are as many as the
\* tokens admitted within that window
C28_WindowCountsAdmitted ==
    Len(InWindow(limiter.request_times, rl_now,
                 limiter.config.time_window_seconds))
        = AdmittedInWindow(admitted_times, rl_now)

\* the window admits nothing: int(max_requests * adaptive_multiplier) is 0
Starved == AdjustedMaxRequests(limiter) = 0

\* once the window admits nothing, no acquire is admitted and the window
\* admits nothing ever after, unless the limiter is reset: every acquire is
\* refused, and the multiplier rises on a recorded success only (under
\* SpecLimiter, where _record_success runs inside acquire only)
StarvationIsPermanent ==
    [][(Starved /\ ~ResetStep) =>
          /\ Starved'
          /\ ~(AcquireStep /\ rl_last'.kind = "admitted")]_vars

\* C29: the limiter never reaches a state from which no request can be
\* admitted again, however acquire(1) is called afterwards
C29_AlwaysAdmittableAgain == ~Starved

\* an admitted call's func raises, the k-th such call in a row
FailingCallEnds(k) == failing_calls'.count = k /\ failing_calls.count = k - 1

\* C30: after k admitted calls of call_with_rate_limit in a row whose
\* function raises, consecutive_failures is k for k below failure_threshold,
\* and the failure_threshold-th puts the limiter into backoff
C30_FailingCallsAccumulate ==
    [][\A k \in 1..limiter.config.failure_threshold :
          FailingCallEnds(k) =>
              /\ k < limiter.config.failure_threshold =>
                     limiter'.consecutive_failures = k
              /\ k = limiter.config.failure_threshold =>
                     rl_now * DelayScale < limiter'.backoff_until]_vars

(***************************************************************************)
(* Properties of ErrorHandler                                              *)
(***************************************************************************)
\* func was invoked and raised in this step
AttemptFailed == eh_invocations' = eh_invocations + 1 /\ eh_pc' # "returned"

\* C21: after a failed attempt the function is invoked again if and only if
\* the classified category is Network, ExternalService, Timeout or
\* RateLimiting and the attempt number is below max_attempts; an error of
\* any other category is raised after that attempt; the function is never
\* invoked more than max_attempts times
C21_RetryOnlyRetryable ==
    [][/\ AttemptFailed =>
             /\ eh_pc' \in {"sleeping", "raised"}
             /\ eh_pc' = "sleeping" <=>
                    /\ phantom_exc'.category \in
                           {"network", "external_service", "timeout",
                            "rate_limiting"}
                    /\ attempt < retry_config.max_attempts
       /\ (eh_invocations' = eh_invocations + 1 /\ eh_invocations >= 1) =>
             /\ eh_pc = "attempt"
             /\ attempt' = eh_invocations + 1
             /\ phantom_exc.category \in
                    {"network", "external_service", "timeout",
                     "rate_limiting"}
       /\ eh_pc = "sleeping" => (eh_pc' = "attempt" /\ attempt' = attempt + 1)
       /\ eh_invocations' <= retry_config.max_attempts]_vars

\* a retryable failure was retried, and the last attempt failed with a
\* category that is not retryable while attempts remained
C21_Witness ==
    /\ eh_pc = "raised"
    /\ eh_invocations = 2
    /\ retry_config.max_attempts = MaxRetryAttempts
    /\ phantom_exc.category = "circuit_breaker"

====
